---- MODULE Spec2Model ----
(***************************************************************************)
(* Model of the spatialdata-io readers: merscope (with its helpers         *)
(* _scan_images and _get_file_paths) and read_visium.                      *)
(*                                                                         *)
(* Strings of the program are modelled as sequences of one-character       *)
(* strings, so that regular-expression matching, lower-casing, Path.stem   *)
(* and str() are computed and not assumed.                                 *)
(***************************************************************************)
EXTENDS Integers, Sequences, FiniteSets, TLC

\* the value None; a record, so that it compares with every structured value
None == [none |-> TRUE]

(***************************************************************************)
(* Characters                                                              *)
(***************************************************************************)
Digits == <<"0", "1", "2", "3", "4", "5", "6", "7", "8", "9">>

UpperLetters == <<"A", "B", "C", "D", "E", "F", "G", "H", "I", "J", "K", "L", "M",
                  "N", "O", "P", "Q", "R", "S", "T", "U", "V", "W", "X", "Y", "Z">>

LowerLetters == <<"a", "b", "c", "d", "e", "f", "g", "h", "i", "j", "k", "l", "m",
                  "n", "o", "p", "q", "r", "s", "t", "u", "v", "w", "x", "y", "z">>

Range(s) == {s[i] : i \in DOMAIN s}

\* [0-9]
DigitChars == Range(Digits)

\* \w of the re module (ASCII part)
WordChars == Range(Digits) \cup Range(UpperLetters) \cup Range(LowerLetters) \cup {"_"}

\* the character class [\w|-] of the stain group
StainChars == WordChars \cup {"|", "-"}

IsDigit(c) == c \in DigitChars
IsStainChar(c) == c \in StainChars

\* str.lower() on one character
LowerChar(c) ==
    IF \E i \in DOMAIN UpperLetters : UpperLetters[i] = c
    THEN LowerLetters[CHOOSE i \in DOMAIN UpperLetters : UpperLetters[i] = c]
    ELSE c

\* str.lower()
Lower(s) == [i \in DOMAIN s |-> LowerChar(s[i])]

\* the literal t occurs in s starting at position i
LitAt(s, i, t) == i >= 1 /\ i + Len(t) - 1 <= Len(s) /\ SubSeq(s, i, i + Len(t) - 1) = t

\* str.contains(t) for a plain pattern: t occurs somewhere in s
Contains(s, t) == \E i \in 1..Len(s) : LitAt(s, i, t)

Max(S) == CHOOSE x \in S : \A y \in S : y <= x
Min(S) == CHOOSE x \in S : \A y \in S : x <= y

\* str(n) for a natural number
RECURSIVE Str(_)
Str(n) == IF n < 10 THEN <<Digits[n + 1]>> ELSE Str(n \div 10) \o <<Digits[(n % 10) + 1]>>

(***************************************************************************)
(* _scan_images: re.search of                                              *)
(*   mosaic_(?P<stain>[\w|-]+[0-9]?)_z(?P<z>[0-9]+).tif                     *)
(* on a file name.  re.search is unanchored, the dot before tif is an      *)
(* unescaped wildcard, and the quantifiers are greedy with backtracking.   *)
(***************************************************************************)
S_mosaic == <<"m", "o", "s", "a", "i", "c", "_">>
S_z == <<"_", "z">>
S_tif == <<"t", "i", "f">>
S_dottif == <<".", "t", "i", "f">>

\* The ways the pattern matches name from start position i: <<e, d>> with the
\* stain group = name[i+7..e] and the z group = name[e+3..d].
MatchesAt(name, i) ==
    IF ~LitAt(name, i, S_mosaic) THEN {} ELSE
    {ed \in ((i + 7)..Len(name)) \X ((i + 10)..Len(name)) :
        /\ \A k \in (i + 7)..ed[1] : IsStainChar(name[k])
        /\ LitAt(name, ed[1] + 1, S_z)
        /\ ed[2] >= ed[1] + 3
        /\ \A k \in (ed[1] + 3)..ed[2] : IsDigit(name[k])
        /\ ed[2] + 1 <= Len(name)
        /\ LitAt(name, ed[2] + 2, S_tif)}

\* re.search(exp, name): None, or the groups of the first match.  The first
\* match starts at the leftmost possible position; the greedy stain group is
\* the longest that lets the rest match, then the greedy z group likewise.
re_search(name) ==
    LET starts == {i \in 1..Len(name) : MatchesAt(name, i) # {}}
    IN  IF starts = {} THEN None
        ELSE LET i == Min(starts)
                 e == Max({ed[1] : ed \in MatchesAt(name, i)})
                 d == Max({ed[2] : ed \in {m \in MatchesAt(name, i) : m[1] = e}})
             IN  [stain |-> SubSeq(name, i + 7, e), z |-> SubSeq(name, e + 3, d)]

\* _scan_images(images_dir): the two lists, modelled as the sets they are built from
scan_images(dir) ==
    LET matches == {re_search(f) : f \in dir} \ {None}
    IN  [stainings |-> {m.stain : m \in matches}, z_levels |-> {m.z : m \in matches}]

\* the name imread is given: f"mosaic_{stain}_z{z_level}.tif"
MosaicName(stain, z) == S_mosaic \o stain \o S_z \o z \o S_dottif

(***************************************************************************)
(* pathlib                                                                 *)
(***************************************************************************)
\* PurePath.name: the final path segment
PathName(path) == path[Len(path)]

\* variant: the final segment with its suffix
PathStem_name(path) == PathName(path)

\* PurePath.stem: the final segment without its suffix; the suffix starts at
\* the last dot, unless that dot is the first or the last character.
PathStem(path) ==
    LET name == PathName(path)
        dots == {i \in 1..Len(name) : name[i] = "."}
    IN  IF dots # {} /\ 1 < Max(dots) /\ Max(dots) < Len(name)
        THEN SubSeq(name, 1, Max(dots) - 1)
        ELSE name

(***************************************************************************)
(* Files.  A path is <<directory, file name>>; the file names are the       *)
(* members of MerscopeKeys, referred to by their member name.              *)
(***************************************************************************)
P_COUNTS == <<"path", "COUNTS_FILE">>
P_OBS == <<"path", "CELL_METADATA_FILE">>
P_BOUNDARIES == <<"path", "BOUNDARIES_FILE">>
P_TRANSCRIPTS == <<"path", "TRANSCRIPTS_FILE">>
P_TRANSFORMATION == <<"images_dir", "TRANSFORMATION_FILE">>
V_COUNTS == <<"vpt_outputs", "COUNTS_FILE">>
V_OBS == <<"vpt_outputs", "CELL_METADATA_FILE">>
V_CELLPOSE == <<"vpt_outputs", "CELLPOSE_BOUNDARIES">>
V_WATERSHED == <<"vpt_outputs", "WATERSHED_BOUNDARIES">>
D_COUNTS == <<"dir_a", "counts.csv">>
D_OBS == <<"dir_b", "obs.csv">>
D_BOUNDARIES == <<"dir_c", "boundaries.parquet">>

AllPaths == {P_COUNTS, P_OBS, P_BOUNDARIES, P_TRANSCRIPTS, P_TRANSFORMATION,
             V_COUNTS, V_OBS, V_CELLPOSE, V_WATERSHED, D_COUNTS, D_OBS, D_BOUNDARIES}

\* the forms of the vpt_outputs argument
VptNone == [kind |-> "None", map |-> <<>>]
VptStr == [kind |-> "str", map |-> <<>>]
VptPath == [kind |-> "Path", map |-> <<>>]
VptInt == [kind |-> "int", map |-> <<>>]
VptDict(m) == [kind |-> "dict", map |-> m]
FullDict == [k \in {"VPT_NAME_COUNTS", "VPT_NAME_OBS", "VPT_NAME_BOUNDARIES"} |->
               CASE k = "VPT_NAME_COUNTS" -> D_COUNTS
                 [] k = "VPT_NAME_OBS" -> D_OBS
                 [] OTHER -> D_BOUNDARIES]
PartialDict == [k \in {"VPT_NAME_COUNTS", "VPT_NAME_OBS"} |-> FullDict[k]]

NoError == [type |-> "NoError", step |-> "", names |-> <<>>]
Raise(type, step, names) == [type |-> type, step |-> step, names |-> names]

\* the candidates in priority order
plausible_boundaries == <<V_CELLPOSE, V_WATERSHED>>

\* variant: the candidates are taken without looking whether they exist
valid_boundaries_unchecked(present) == plausible_boundaries

\* [path for path in plausible_boundaries if path.exists()]
valid_boundaries(present) == SelectSeq(plausible_boundaries, LAMBDA p : p \in present)

\* _get_file_paths(path, vpt_outputs): the triple of paths, or the error raised
get_file_paths(vpt_outputs, present) ==
    CASE vpt_outputs.kind = "None" ->
            [paths |-> <<P_COUNTS, P_OBS, P_BOUNDARIES>>, error |-> NoError]
      [] vpt_outputs.kind \in {"str", "Path"} ->
            IF valid_boundaries(present) = <<>>
            THEN [paths |-> None,
                  error |-> Raise("AssertionError", "_get_file_paths", plausible_boundaries)]
            ELSE [paths |-> <<V_COUNTS, V_OBS, valid_boundaries(present)[1]>>, error |-> NoError]
      [] vpt_outputs.kind = "dict" ->
            IF {"VPT_NAME_COUNTS", "VPT_NAME_OBS", "VPT_NAME_BOUNDARIES"} \subseteq DOMAIN vpt_outputs.map
            THEN [paths |-> <<vpt_outputs.map["VPT_NAME_COUNTS"], vpt_outputs.map["VPT_NAME_OBS"],
                              vpt_outputs.map["VPT_NAME_BOUNDARIES"]>>,
                  error |-> NoError]
            ELSE [paths |-> None, error |-> Raise("KeyError", "_get_file_paths", <<>>)]
      [] OTHER ->
            [paths |-> None, error |-> Raise("ValueError", "_get_file_paths", <<vpt_outputs.kind>>)]

(***************************************************************************)
(* Transcripts.  A z value is kept in half units (z2 = 2 * z), so that the *)
(* table can hold the non-integral value 0.5 and int() truncates.          *)
(***************************************************************************)
\* int(x) for a non-negative number in half units
py_int(z2) == z2 \div 2

\* z.value_counts().index: the distinct values, most frequent first (ties in any order)
Count(zs, v) == Cardinality({i \in DOMAIN zs : zs[i] = v})

IsPermutation(q, S) == Len(q) = Cardinality(S) /\ Range(q) = S

value_counts_index(zs) ==
    {q \in [1..Cardinality(Range(zs)) -> Range(zs)] :
        /\ IsPermutation(q, Range(zs))
        /\ \A i, j \in DOMAIN q : i < j => Count(zs, q[i]) >= Count(zs, q[j])}

\* sorted(z_levels, key=lambda x: int(x)): the stable sort of q by int
sorted_by_int(q) ==
    CHOOSE r \in [DOMAIN q -> Range(q)] :
        /\ IsPermutation(r, Range(q))
        /\ \A i, j \in DOMAIN r : i < j => py_int(r[i]) <= py_int(r[j])
        /\ \A i, j \in DOMAIN q :
              (i < j /\ py_int(q[i]) = py_int(q[j])) =>
                 (CHOOSE a \in DOMAIN r : r[a] = q[i]) < (CHOOSE b \in DOMAIN r : r[b] = q[j])

\* variant: the rows at or above the level
rows_at_or_above(zs, z_level) == {i \in DOMAIN zs : zs[i] >= z_level}

\* transcripts[z == z_level]
rows_at(zs, z_level) == {i \in DOMAIN zs : zs[i] = z_level}

TranscriptColumns == {"x", "y", "z", "gene"}

\* transcripts_subset.drop("z", axis=1)
drop_z(columns) == columns \ {"z"}

S_transcripts_z == <<"t", "r", "a", "n", "s", "c", "r", "i", "p", "t", "s", "_", "z">>

\* f"transcripts_z{int(z_level)}"
points_key(z_level) == S_transcripts_z \o Str(py_int(z_level))

(***************************************************************************)
(* Boundaries                                                              *)
(***************************************************************************)
\* variant: the rows of every z-index are kept
RECURSIVE all_slices(_, _)
all_slices(geo_df, i) ==
    IF i > Len(geo_df) THEN <<>>
    ELSE <<[index |-> Str(geo_df[i].EntityID), row |-> i]>> \o all_slices(geo_df, i + 1)

\* geo_df[geo_df[Z_INDEX] == 0] with index = geo_df[INSTANCE_KEY].astype(str);
\* row is the position of the row in the boundary file
RECURSIVE z0_slice(_, _)
z0_slice(geo_df, i) ==
    IF i > Len(geo_df) THEN <<>>
    ELSE (IF geo_df[i].ZIndex = 0 THEN <<[index |-> Str(geo_df[i].EntityID), row |-> i]>> ELSE <<>>)
         \o z0_slice(geo_df, i + 1)

(***************************************************************************)
(* Table                                                                   *)
(***************************************************************************)
S_blank == <<"b", "l", "a", "n", "k">>

\* variant: the test is case-sensitive
is_gene_case_sensitive(column) == ~Contains(column, S_blank)

\* ~data.columns.str.lower().str.contains("blank")
is_gene(column) == ~Contains(Lower(column), S_blank)

(***************************************************************************)
(* Inputs                                                                  *)
(***************************************************************************)
\* the largest sizes of the inputs
MaxFiles == 4
MaxRows == 3
MaxZ2 == 3
MaxBoundaryRows == 3
MaxId == 2
MaxCols == 3
MaxSegLen == 3
MaxPixels == 2
MaxSpots == 1

\* file names that may be found in the images directory
N_DAPI_z0 == <<"m", "o", "s", "a", "i", "c", "_", "D", "A", "P", "I", "_", "z", "0", ".", "t", "i", "f">>
N_DAPI_z1 == <<"m", "o", "s", "a", "i", "c", "_", "D", "A", "P", "I", "_", "z", "1", ".", "t", "i", "f">>
N_PolyT_z0 == <<"m", "o", "s", "a", "i", "c", "_", "P", "o", "l", "y", "T", "_", "z", "0", ".", "t", "i", "f">>
N_PolyT_z1 == <<"m", "o", "s", "a", "i", "c", "_", "P", "o", "l", "y", "T", "_", "z", "1", ".", "t", "i", "f">>
N_notes == <<"n", "o", "t", "e", "s", ".", "t", "x", "t">>
N_DAPI_z2_tiff == <<"m", "o", "s", "a", "i", "c", "_", "D", "A", "P", "I", "_", "z", "2", ".", "t", "i", "f", "f">>
N_DAPI_z3xtif == <<"m", "o", "s", "a", "i", "c", "_", "D", "A", "P", "I", "_", "z", "3", "x", "t", "i", "f">>
N_old_CD4_z4 == <<"o", "l", "d", "_", "m", "o", "s", "a", "i", "c", "_", "C", "D", "4", "_", "z", "4", ".", "t", "i", "f">>
NamePool == {N_DAPI_z0, N_DAPI_z1, N_PolyT_z0, N_PolyT_z1, N_notes, N_DAPI_z2_tiff, N_DAPI_z3xtif, N_old_CD4_z4}

\* column names that may be found in the counts file
C_ABCD1 == <<"A", "B", "C", "D", "1">>
C_Blank3 == <<"B", "l", "a", "n", "k", "-", "3">>
C_BLANK == <<"B", "L", "A", "N", "K">>
C_blank_1 == <<"b", "l", "a", "n", "k", "_", "1">>
C_Blan == <<"B", "l", "a", "n">>
C_NoBlanks == <<"N", "o", "B", "l", "a", "n", "k", "s">>
ColumnPool == {C_ABCD1, C_Blank3, C_BLANK, C_blank_1, C_Blan, C_NoBlanks}

S_data == <<"d", "a", "t", "a">>
S_region_0 == <<"r", "0">>

\* sequences over S of length at most n
SeqsUpTo(S, n) == UNION {[1..k -> S] : k \in 0..n}

\* subsets of S of at most n elements
SubsetsUpTo(S, n) == {T \in SUBSET S : Cardinality(T) <= n}

\* final path segments: non-empty, and not one of the segments "." and ".."
\* that pathlib never leaves at the end of a directory path
Segments == {g \in SeqsUpTo({"r", "0", "."}, MaxSegLen) : g # <<>> /\ g # <<".">> /\ g # <<".", ".">>}

\* rows of the boundary file: a cell at the z-index 0 or at another z-index
BoundaryRows == [EntityID : 1..MaxId, ZIndex : {0, 1}]

\* strictly increasing sequences of cell identifiers
ObsIndexes == {o \in SeqsUpTo(1..(MaxId + 1), MaxId + 1) : \A i, j \in DOMAIN o : i < j => o[i] < o[j]}

DefaultInput ==
    [call |-> "merscope",
     path |-> <<S_data, S_region_0>>,
     vpt_outputs |-> VptNone,
     read_tif |-> TRUE,
     present |-> AllPaths,
     images_dir |-> {N_DAPI_z0, N_PolyT_z0},
     transcripts |-> <<0, 2>>,
     boundaries |-> <<[EntityID |-> 1, ZIndex |-> 0], [EntityID |-> 1, ZIndex |-> 1],
                      [EntityID |-> 2, ZIndex |-> 0]>>,
     obs |-> <<1, 2>>,
     columns |-> {C_ABCD1, C_Blank3}]

MerscopeInputs ==
    \* the forms of vpt_outputs, with and without the boundary candidates
    {[DefaultInput EXCEPT !.vpt_outputs = v, !.present = AllPaths \ m] :
        v \in {VptNone, VptStr, VptPath, VptInt, VptDict(FullDict), VptDict(PartialDict)},
        m \in SUBSET {V_CELLPOSE, V_WATERSHED}}
    \* one missing file, with and without images
    \cup {[DefaultInput EXCEPT !.vpt_outputs = v, !.present = AllPaths \ {m}, !.read_tif = r] :
        v \in {VptNone, VptStr, VptDict(FullDict)}, m \in AllPaths, r \in BOOLEAN}
    \* the content of the images directory
    \cup {[DefaultInput EXCEPT !.images_dir = d] : d \in SubsetsUpTo(NamePool, MaxFiles)}
    \* the transcript table
    \cup {[DefaultInput EXCEPT !.transcripts = zs] : zs \in SeqsUpTo(0..MaxZ2, MaxRows)}
    \* the boundary file
    \cup {[DefaultInput EXCEPT !.boundaries = b] : b \in SeqsUpTo(BoundaryRows, MaxBoundaryRows)}
    \* the cell metadata, with a boundary file of one or two cells
    \cup {[DefaultInput EXCEPT !.boundaries = b, !.obs = o] :
        b \in {DefaultInput.boundaries, <<[EntityID |-> 1, ZIndex |-> 0], [EntityID |-> 2, ZIndex |-> 1]>>},
        o \in ObsIndexes}
    \* the columns of the counts file
    \cup {[DefaultInput EXCEPT !.columns = c] : c \in SubsetsUpTo(ColumnPool, MaxCols)}
    \* the root path
    \cup {[DefaultInput EXCEPT !.path = <<S_data, g>>] : g \in Segments}

(***************************************************************************)
(* read_visium inputs.  A number that need not be an integer is a pair     *)
(* <<numerator, denominator>> with a positive denominator.                 *)
(***************************************************************************)
RatEq(a, b) == a[1] * b[2] = b[1] * a[2]
RatLeq(a, b) == a[1] * b[2] <= b[1] * a[2]
RatOne == <<1, 1>>
RatZero == <<0, 1>>
\* 1 / a
RatInv(a) == <<a[2], a[1]>>

\* pixel values: -0.25, 0, 0.5, 1, 1.25 for floating-point images, 0, 1, 255 for integer images
FloatPixels == {<<0 - 1, 4>>, <<0, 1>>, <<1, 2>>, <<1, 1>>, <<5, 4>>}
IntPixels == {<<0, 1>>, <<1, 1>>, <<255, 1>>}
FloatTypes == {"float32", "float64"}
IntTypes == {"uint8"}

HiresImages ==
    {[dtype |-> ty, values |-> v] : ty \in FloatTypes, v \in SeqsUpTo(FloatPixels, MaxPixels) \ {<<>>}}
    \cup {[dtype |-> ty, values |-> v] : ty \in IntTypes, v \in SeqsUpTo(IntPixels, MaxPixels) \ {<<>>}}

ScaleFactors == {<<1, 2>>, <<1, 4>>, <<1, 1>>, <<3, 4>>}

S_lib_a == <<"l", "i", "b", "_", "a">>
S_lib_b == <<"l", "i", "b", "_", "b">>
S_global == <<"g", "l", "o", "b", "a", "l">>
\* coordinate_system_name=None, among names that are sequences of characters
NoName == <<>>
S_points == <<"/", "p", "o", "i", "n", "t", "s", "/">>
S_images == <<"/", "i", "m", "a", "g", "e", "s", "/">>

DefaultVisiumInput ==
    [call |-> "read_visium",
     libraries |-> <<S_lib_a>>,
     coordinate_system_name |-> NoName,
     hires |-> [dtype |-> "float32", values |-> <<<<1, 2>>>>],
     tissue_hires_scalef |-> <<1, 2>>,
     spot_diameter_fullres |-> <<89, 1>>,
     n_obs |-> 1]

VisiumInputs ==
    \* the libraries, the name of the coordinate system and the number of spots
    {[DefaultVisiumInput EXCEPT !.libraries = l, !.coordinate_system_name = c, !.n_obs = n] :
        l \in {<<S_lib_a>>, <<S_lib_a, S_lib_b>>}, c \in {NoName, S_global}, n \in 0..MaxSpots}
    \* the hi-res image and its scale factor
    \cup {[DefaultVisiumInput EXCEPT !.hires = h, !.tissue_hires_scalef = f] :
        h \in HiresImages, f \in ScaleFactors}

(***************************************************************************)
(* State                                                                   *)
(***************************************************************************)
VARIABLES
    inp,                \* the arguments of the call and the files it reads
    pc,                 \* the position of the call
    steps,              \* the steps of merscope / read_visium started so far
    error,              \* the exception that ended the call, NoError if none
    file_paths,         \* merscope: (count_path, obs_path, boundaries_path)
    microns_to_pixels,  \* merscope: the Affine read from the transformation file
    scan,               \* merscope: the result of _scan_images
    images,             \* merscope: the images dict
    z_queue,            \* merscope: the z-levels the split loop has yet to visit
    points,             \* merscope: the points dict
    shapes,             \* merscope: the shapes dict
    table,              \* merscope: the table
    csn,                \* read_visium: coordinate_system_name after defaulting
    expression,         \* read_visium: the arguments of table_update_anndata
    circles,            \* read_visium: the arguments of circles_anndata_from_coordinates
    img,                \* read_visium: the image
    transform,          \* read_visium: the Scale of the image
    sdata               \* the SpatialData returned, None if none

vars == <<inp, pc, steps, error, file_paths, microns_to_pixels, scan, images, z_queue,
          points, shapes, table, csn, expression, circles, img, transform, sdata>>

merscope_vars == <<file_paths, microns_to_pixels, scan, images, z_queue, points, shapes, table>>
visium_vars == <<csn, expression, circles, img, transform>>

Init ==
    /\ inp \in MerscopeInputs \cup VisiumInputs
    /\ pc = "start"
    /\ steps = <<>>
    /\ error = NoError
    /\ file_paths = None
    /\ microns_to_pixels = None
    /\ scan = None
    /\ images = <<>>
    /\ z_queue = <<>>
    /\ points = <<>>
    /\ shapes = <<>>
    /\ table = None
    /\ csn = None
    /\ expression = None
    /\ circles = None
    /\ img = None
    /\ transform = None
    /\ sdata = None

\* an exception leaves the call: nothing is returned
Abort(type, step, names) ==
    /\ pc' = "error"
    /\ error' = Raise(type, step, names)
    /\ sdata' = None

(***************************************************************************)
(* merscope                                                                *)
(***************************************************************************)
\* count_path, obs_path, boundaries_path = _get_file_paths(path, vpt_outputs)
ResolvePaths ==
    /\ inp.call = "merscope" /\ pc = "start"
    /\ steps' = Append(steps, "paths")
    /\ LET r == get_file_paths(inp.vpt_outputs, inp.present)
       IN  IF r.error # NoError
           THEN /\ pc' = "error" /\ error' = r.error /\ sdata' = None
                /\ UNCHANGED file_paths
           ELSE /\ file_paths' = r.paths
                /\ pc' = "transform"
                /\ UNCHANGED <<error, sdata>>
    /\ UNCHANGED <<inp, microns_to_pixels, scan, images, z_queue, points, shapes, table>>
    /\ UNCHANGED visium_vars

\* microns_to_pixels = Affine(np.genfromtxt(images_dir / TRANSFORMATION_FILE), ...)
ReadTransform ==
    /\ inp.call = "merscope" /\ pc = "transform"
    /\ steps' = Append(steps, "transform")
    /\ IF P_TRANSFORMATION \notin inp.present
       THEN /\ Abort("FileNotFoundError", "transform", <<P_TRANSFORMATION>>)
            /\ UNCHANGED microns_to_pixels
       ELSE /\ microns_to_pixels' = [type |-> "Affine", input_axes |-> <<"x", "y">>,
                                     output_axes |-> <<"x", "y">>]
            /\ pc' = "images"
            /\ UNCHANGED <<error, sdata>>
    /\ UNCHANGED <<inp, file_paths, scan, images, z_queue, points, shapes, table>>
    /\ UNCHANGED visium_vars

\* if read_tif: scan the directory and stack the stain images of every z-level
ReadImages ==
    /\ inp.call = "merscope" /\ pc = "images"
    /\ IF ~inp.read_tif
       THEN /\ pc' = "transcripts"
            /\ UNCHANGED <<steps, scan, images, error, sdata>>
       ELSE LET r == scan_images(inp.images_dir)
                needed == {MosaicName(st, z) : st \in r.stainings, z \in r.z_levels}
            IN  /\ steps' = Append(steps, "images")
                /\ scan' = r
                /\ IF needed \subseteq inp.images_dir
                   THEN /\ images' = [k \in {<<"z">> \o z : z \in r.z_levels} |->
                                        [dims |-> <<"c", "z", "y", "x">>, c_coords |-> r.stainings,
                                         transformations |-> "Identity"]]
                        /\ pc' = "transcripts"
                        /\ UNCHANGED <<error, sdata>>
                   ELSE /\ Abort("FileNotFoundError", "images", <<>>)
                        /\ UNCHANGED images
    /\ UNCHANGED <<inp, file_paths, microns_to_pixels, z_queue, points, shapes, table>>
    /\ UNCHANGED visium_vars

\* transcript_df = dd.read_csv(...); z_levels = sorted(z.value_counts().index, key=int)
ReadTranscripts ==
    /\ inp.call = "merscope" /\ pc = "transcripts"
    /\ steps' = Append(steps, "transcripts")
    /\ IF P_TRANSCRIPTS \notin inp.present
       THEN /\ Abort("FileNotFoundError", "transcripts", <<P_TRANSCRIPTS>>)
            /\ UNCHANGED z_queue
       ELSE /\ \E q \in value_counts_index(inp.transcripts) : z_queue' = sorted_by_int(q)
            /\ pc' = "split"
            /\ UNCHANGED <<error, sdata>>
    /\ points' = <<>>
    /\ UNCHANGED <<inp, file_paths, microns_to_pixels, scan, images, shapes, table>>
    /\ UNCHANGED visium_vars

\* one iteration of: for z_level in z_levels
SplitTranscripts ==
    /\ inp.call = "merscope" /\ pc = "split" /\ z_queue # <<>>
    /\ LET z_level == Head(z_queue)
           transcripts_subset == [rows |-> rows_at(inp.transcripts, z_level),
                                  columns |-> drop_z(TranscriptColumns),
                                  transformations |-> "Identity"]
       IN  points' = [k \in (DOMAIN points) \cup {points_key(z_level)} |->
                        IF k = points_key(z_level) THEN transcripts_subset ELSE points[k]]
    /\ z_queue' = Tail(z_queue)
    /\ UNCHANGED <<inp, pc, steps, error, file_paths, microns_to_pixels, scan, images, shapes, table, sdata>>
    /\ UNCHANGED visium_vars

\* variant: a missing boundary file gives an empty shape layer and the call goes on
ReadPolygons_degraded ==
    /\ inp.call = "merscope" /\ pc = "split" /\ z_queue = <<>>
    /\ steps' = Append(steps, "boundaries")
    /\ shapes' = [polygons |-> [rows |-> IF file_paths[3] \notin inp.present THEN <<>>
                                         ELSE z0_slice(inp.boundaries, 1),
                                transformations |-> microns_to_pixels]]
    /\ pc' = "table"
    /\ UNCHANGED <<error, sdata>>
    /\ UNCHANGED <<inp, file_paths, microns_to_pixels, scan, images, z_queue, points, table>>
    /\ UNCHANGED visium_vars

\* geo_df = geopandas.read_parquet(boundaries_path), filtered to z-index 0
ReadPolygons ==
    /\ inp.call = "merscope" /\ pc = "split" /\ z_queue = <<>>
    /\ steps' = Append(steps, "boundaries")
    /\ IF file_paths[3] \notin inp.present
       THEN /\ Abort("FileNotFoundError", "boundaries", <<file_paths[3]>>)
            /\ UNCHANGED shapes
       ELSE /\ shapes' = [polygons |-> [rows |-> z0_slice(inp.boundaries, 1),
                                        transformations |-> microns_to_pixels]]
            /\ pc' = "table"
            /\ UNCHANGED <<error, sdata>>
    /\ UNCHANGED <<inp, file_paths, microns_to_pixels, scan, images, z_queue, points, table>>
    /\ UNCHANGED visium_vars

\* data, obs = pd.read_csv(...); adata = AnnData(...); table = TableModel.parse(...)
BuildTable ==
    /\ inp.call = "merscope" /\ pc = "table"
    /\ steps' = Append(steps, "table")
    /\ IF file_paths[1] \notin inp.present \/ file_paths[2] \notin inp.present
       THEN /\ Abort("FileNotFoundError", "table",
                     IF file_paths[1] \notin inp.present THEN <<file_paths[1]>> ELSE <<file_paths[2]>>)
            /\ UNCHANGED table
       ELSE /\ table' =
                 [X |-> {c \in inp.columns : is_gene(c)},
                  blank |-> {c \in inp.columns : ~is_gene(c)},
                  obs |-> [i \in DOMAIN inp.obs |->
                             [index |-> Str(inp.obs[i]),
                              region |-> PathStem(inp.path),
                              EntityID |-> Str(inp.obs[i])]],
                  region_key |-> "region",
                  region |-> {PathStem(inp.path) : i \in DOMAIN inp.obs},
                  instance_key |-> "EntityID"]
            /\ pc' = "return"
            /\ UNCHANGED <<error, sdata>>
    /\ UNCHANGED <<inp, file_paths, microns_to_pixels, scan, images, z_queue, points, shapes>>
    /\ UNCHANGED visium_vars

\* return SpatialData(shapes=shapes, points=points, images=images, table=table)
Return ==
    /\ inp.call = "merscope" /\ pc = "return"
    /\ sdata' = [shapes |-> shapes, points |-> points, images |-> images, table |-> table]
    /\ pc' = "done"
    /\ UNCHANGED <<inp, steps, error>>
    /\ UNCHANGED merscope_vars
    /\ UNCHANGED visium_vars

(***************************************************************************)
(* read_visium                                                             *)
(***************************************************************************)
\* the axes of the image: DataArray(..., dims=("y", "x", "c"))
img_dims == <<"y", "x", "c">>

\* variant: the type of the image is not looked at
image_ok_any_type(hires) ==
    /\ \A i \in DOMAIN hires.values : RatLeq(RatZero, hires.values[i])
    /\ \A i \in DOMAIN hires.values : RatLeq(hires.values[i], RatOne)

\* the assertion on the hi-res image
image_ok(hires) ==
    /\ hires.dtype = "float32"
    /\ \A i \in DOMAIN hires.values : RatLeq(RatZero, hires.values[i])
    /\ \A i \in DOMAIN hires.values : RatLeq(hires.values[i], RatOne)

\* (img * 255).astype(np.uint8): the fraction is cut off
to_uint8(hires) ==
    [dtype |-> "uint8", dims |-> img_dims,
     values |-> [i \in DOMAIN hires.values |-> (hires.values[i][1] * 255) \div hires.values[i][2]]]

\* np.array([1.0] + [1 / tissue_hires_scalef] * 2)
scale_factors(scalef) == <<RatOne>> \o <<RatInv(scalef), RatInv(scalef)>>

\* the factor a Scale applies to an axis of the element it is attached to:
\* the entry of the scale vector at the position of the axis
AxisFactor(scale, dims, axis) == scale[CHOOSE i \in DOMAIN dims : dims[i] = axis]

\* adata = sc.read_visium(path); assert len(libraries) == 1; default the name
VisiumRead ==
    /\ inp.call = "read_visium" /\ pc = "start"
    /\ steps' = Append(steps, "read")
    /\ IF Len(inp.libraries) # 1
       THEN /\ Abort("AssertionError", "read", <<>>)
            /\ UNCHANGED csn
       ELSE /\ csn' = IF inp.coordinate_system_name = NoName THEN inp.libraries[1]
                      ELSE inp.coordinate_system_name
            /\ pc' = "table"
            /\ UNCHANGED <<error, sdata>>
    /\ UNCHANGED <<inp, expression, circles, img, transform>>
    /\ UNCHANGED merscope_vars

\* table_update_anndata(...) and circles_anndata_from_coordinates(...)
VisiumTable ==
    /\ inp.call = "read_visium" /\ pc = "table"
    /\ steps' = Append(steps, "table")
    /\ expression' = [regions |-> S_points \o csn, regions_key |-> "library_id",
                      instance_key |-> "visium_spot_id",
                      regions_values |-> S_points \o csn,
                      instance_values |-> [i \in 1..inp.n_obs |-> i - 1]]
    /\ circles' = [radii |-> <<inp.spot_diameter_fullres[1], inp.spot_diameter_fullres[2] * 2>>,
                   instance_key |-> "visium_spot_id",
                   instance_values |-> [i \in 1..inp.n_obs |-> i - 1]]
    /\ pc' = "image"
    /\ UNCHANGED <<inp, error, csn, img, transform, sdata>>
    /\ UNCHANGED merscope_vars

\* the hi-res image: assert it is float32 within [0, 1], then rescale to 8 bits
VisiumImage ==
    /\ inp.call = "read_visium" /\ pc = "image"
    /\ steps' = Append(steps, "image")
    /\ IF ~image_ok(inp.hires)
       THEN /\ Abort("AssertionError", "image", <<>>)
            /\ UNCHANGED img
       ELSE /\ img' = to_uint8(inp.hires)
            /\ pc' = "transform"
            /\ UNCHANGED <<error, sdata>>
    /\ UNCHANGED <<inp, csn, expression, circles, transform>>
    /\ UNCHANGED merscope_vars

\* transform = Scale(scale=scale_factors)
VisiumTransform ==
    /\ inp.call = "read_visium" /\ pc = "transform"
    /\ steps' = Append(steps, "transform")
    /\ transform' = [type |-> "Scale", scale |-> scale_factors(inp.tissue_hires_scalef)]
    /\ pc' = "return"
    /\ UNCHANGED <<inp, error, csn, expression, circles, img, sdata>>
    /\ UNCHANGED merscope_vars

\* sdata = SpatialData(images=..., points=..., table=..., transformations=...); return sdata
VisiumReturn ==
    /\ inp.call = "read_visium" /\ pc = "return"
    /\ sdata' = [images |-> [k \in {csn} |-> img],
                 points |-> [k \in {csn} |-> circles],
                 table |-> expression,
                 transformations |->
                    [k \in {S_images \o csn, S_points \o csn} |->
                        IF k = S_images \o csn THEN transform ELSE None]]
    /\ pc' = "done"
    /\ UNCHANGED <<inp, steps, error>>
    /\ UNCHANGED visium_vars
    /\ UNCHANGED merscope_vars

Next ==
    \/ ResolvePaths
    \/ ReadTransform
    \/ ReadImages
    \/ ReadTranscripts
    \/ SplitTranscripts
    \/ ReadPolygons
    \/ BuildTable
    \/ Return
    \/ VisiumRead
    \/ VisiumTable
    \/ VisiumImage
    \/ VisiumTransform
    \/ VisiumReturn

Spec == Init /\ [][Next]_vars

(***************************************************************************)
(* Properties                                                              *)
(***************************************************************************)
IsMerscope == inp.call = "merscope"
IsVisium == inp.call = "read_visium"
DirectoryForm == IsMerscope /\ inp.vpt_outputs.kind \in {"str", "Path"}
NoCandidate == V_CELLPOSE \notin inp.present /\ V_WATERSHED \notin inp.present

\* C1: with a directory-form vpt_outputs, once _get_file_paths has run: if
\* neither boundary candidate exists the call has ended with an error whose
\* message names both candidates and no path triple was returned; otherwise
\* _get_file_paths raised nothing and the boundary path is the first existing
\* candidate in the order cellpose, watershed.
C1_BoundaryCandidates ==
    (DirectoryForm /\ pc # "start") =>
        IF NoCandidate
        THEN /\ pc = "error"
             /\ error.type = "AssertionError"
             /\ error.step = "_get_file_paths"
             /\ {V_CELLPOSE, V_WATERSHED} \subseteq Range(error.names)
             /\ file_paths = None
             /\ sdata = None
        ELSE /\ error.step # "_get_file_paths"
             /\ file_paths # None
             /\ file_paths[3] = (IF V_CELLPOSE \in inp.present THEN V_CELLPOSE ELSE V_WATERSHED)

C1_Witness == DirectoryForm /\ NoCandidate /\ pc = "error" /\ file_paths = None

\* name = "mosaic_" stain "_z" digits ".tif", the stain ending at position e
HasMosaicForm(name, e) ==
    /\ LitAt(name, 1, S_mosaic)
    /\ e >= 8
    /\ \A k \in 8..e : name[k] \in StainChars
    /\ LitAt(name, e + 1, S_z)
    /\ Len(name) - 4 >= e + 3
    /\ \A k \in (e + 3)..(Len(name) - 4) : name[k] \in DigitChars
    /\ LitAt(name, Len(name) - 3, S_dottif)

IsMosaicName(name) == \E e \in 1..Len(name) : HasMosaicForm(name, e)
StainOf(name) == SubSeq(name, 8, CHOOSE e \in 1..Len(name) : HasMosaicForm(name, e))
ZOf(name) == SubSeq(name, (CHOOSE e \in 1..Len(name) : HasMosaicForm(name, e)) + 3, Len(name) - 4)

\* C2: _scan_images returns exactly the stains and the z-levels of the files
\* whose name has the form mosaic_<stain>_z<digits>.tif; any other file
\* contributes nothing.
C2_ScanExact ==
    (IsMerscope /\ scan # None) =>
        /\ scan.stainings = {StainOf(f) : f \in {g \in inp.images_dir : IsMosaicName(g)}}
        /\ scan.z_levels = {ZOf(f) : f \in {g \in inp.images_dir : IsMosaicName(g)}}

\* the split loop of merscope has finished
SplitDone ==
    /\ IsMerscope
    /\ \/ pc = "split" /\ z_queue = <<>>
       \/ pc \in {"table", "return", "done"}
       \/ pc = "error" /\ error.step \in {"boundaries", "table"}

LayersOf(i) == {k \in DOMAIN points : i \in points[k].rows}
IntegerLevels == {inp.transcripts[i] \div 2 : i \in DOMAIN inp.transcripts}
AllZIntegral == \A i \in DOMAIN inp.transcripts : inp.transcripts[i] % 2 = 0

\* C3 as stated: for every transcript table, every row is in exactly one point
\* layer, there are as many point layers as distinct integer z-levels, and no
\* point layer has a z column.
C3_PartitionEveryTable ==
    SplitDone =>
        /\ \A i \in DOMAIN inp.transcripts : Cardinality(LayersOf(i)) = 1
        /\ Cardinality(DOMAIN points) = Cardinality(IntegerLevels)
        /\ \A k \in DOMAIN points : "z" \notin points[k].columns

\* C3 amended: when every z value of the table is an integer, every row is in
\* exactly one point layer, the one named for its z-level; for every table, no
\* row is in two layers, there are as many layers as distinct integer
\* z-levels, and no layer has a z column.
C3_PartitionIntegralZ ==
    SplitDone =>
        /\ AllZIntegral =>
              \A i \in DOMAIN inp.transcripts :
                 LayersOf(i) = {S_transcripts_z \o Str(inp.transcripts[i] \div 2)}
        /\ \A i \in DOMAIN inp.transcripts : Cardinality(LayersOf(i)) <= 1
        /\ Cardinality(DOMAIN points) = Cardinality(IntegerLevels)
        /\ \A k \in DOMAIN points : "z" \notin points[k].columns

C3_Witness ==
    /\ SplitDone /\ AllZIntegral
    /\ Len(inp.transcripts) >= 3
    /\ Cardinality(DOMAIN points) >= 2

PolygonsDone == IsMerscope /\ shapes # <<>>
PolygonRows == shapes.polygons.rows
SliceIds == {Str(inp.boundaries[i].EntityID) : i \in {j \in DOMAIN inp.boundaries : inp.boundaries[j].ZIndex = 0}}

\* C4 as stated: the polygon layer has exactly one row per distinct identifier
\* of the z-index-0 slice, no identifier is on two rows, and no row comes from
\* another z-index.
C4_OneRowPerIdentifier ==
    PolygonsDone =>
        /\ \A id \in SliceIds : Cardinality({j \in DOMAIN PolygonRows : PolygonRows[j].index = id}) = 1
        /\ \A j \in DOMAIN PolygonRows :
              /\ PolygonRows[j].index \in SliceIds
              /\ inp.boundaries[PolygonRows[j].row].ZIndex = 0

\* C4 amended: the polygon layer has exactly one row per row of the
\* z-index-0 slice, in file order and indexed by the string form of the
\* identifier of that row; no row comes from another z-index, every
\* identifier of the slice is on a row, and an identifier is on as many rows
\* of the layer as of the slice.
C4_OneRowPerSliceRow ==
    PolygonsDone =>
        /\ \A i \in DOMAIN inp.boundaries :
              Cardinality({j \in DOMAIN PolygonRows : PolygonRows[j].row = i})
                 = (IF inp.boundaries[i].ZIndex = 0 THEN 1 ELSE 0)
        /\ \A j \in DOMAIN PolygonRows :
              /\ PolygonRows[j].row \in DOMAIN inp.boundaries
              /\ inp.boundaries[PolygonRows[j].row].ZIndex = 0
              /\ PolygonRows[j].index = Str(inp.boundaries[PolygonRows[j].row].EntityID)
        /\ \A j, k \in DOMAIN PolygonRows : j < k => PolygonRows[j].row < PolygonRows[k].row
        /\ {PolygonRows[j].index : j \in DOMAIN PolygonRows} = SliceIds

C4_Witness ==
    /\ PolygonsDone
    /\ Len(inp.boundaries) >= 3
    /\ Len(PolygonRows) >= 1
    /\ \E i \in DOMAIN inp.boundaries : inp.boundaries[i].ZIndex # 0

\* C5: in the dataset returned by merscope, the instance keys of the table rows
\* are the index values of the polygon layer, and all table rows carry one
\* region value.
C5_TableMatchesPolygons ==
    (IsMerscope /\ pc = "done") =>
        /\ {sdata.table.obs[i].EntityID : i \in DOMAIN sdata.table.obs}
              = {sdata.shapes.polygons.rows[j].index : j \in DOMAIN sdata.shapes.polygons.rows}
        /\ \A i, j \in DOMAIN sdata.table.obs : sdata.table.obs[i].region = sdata.table.obs[j].region

TableDone == IsMerscope /\ table # None

\* C6 as stated: the region of every cell is the final segment of the root
\* path, also when that segment contains a dot.
C6_RegionIsFinalSegment ==
    TableDone =>
        /\ \A i \in DOMAIN table.obs : table.obs[i].region = inp.path[Len(inp.path)]
        /\ table.region \subseteq {inp.path[Len(inp.path)]}

\* r is the segment g without its suffix: g is r followed by a suffix that
\* starts with the last dot of g, which is neither the first nor the last
\* character of g; r is g when g ends with a dot or has no dot after its
\* first character
IsStemOf(r, g) ==
    \/ /\ r = g
       /\ g[Len(g)] = "." \/ \A k \in 2..Len(g) : g[k] # "."
    \/ /\ Len(r) >= 1 /\ Len(r) + 2 <= Len(g)
       /\ r = SubSeq(g, 1, Len(r))
       /\ g[Len(r) + 1] = "."
       /\ \A k \in (Len(r) + 2)..Len(g) : g[k] # "."

\* C6 amended: the region of every cell is the same single value, the stem of
\* the final segment of the root path: the segment without its suffix, the
\* suffix starting at the last dot unless that dot is the first or the last
\* character; it is the final segment itself only when there is no such dot.
C6_RegionIsStem ==
    TableDone =>
        /\ \A i \in DOMAIN table.obs : IsStemOf(table.obs[i].region, inp.path[Len(inp.path)])
        /\ \A r \in table.region : IsStemOf(r, inp.path[Len(inp.path)])
        /\ Cardinality(table.region) <= 1
        /\ \A i \in DOMAIN table.obs : table.obs[i].region \in table.region

C6_Witness ==
    /\ TableDone /\ pc = "done"
    /\ inp.path[Len(inp.path)] = <<"r", ".", "0">>
    /\ Len(table.obs) >= 1

ImageStepTaken == IsVisium /\ \E k \in DOMAIN steps : steps[k] = "image"
InUnitRange(hires) ==
    \A i \in DOMAIN hires.values :
        /\ hires.values[i][1] >= 0
        /\ hires.values[i][1] <= hires.values[i][2]
Rejected == pc = "error" /\ error.step = "image" /\ img = None /\ sdata = None
\* the image was accepted and every value v became the whole part of 255 * v
Rescaled ==
    /\ img # None
    /\ error = NoError
    /\ img.dtype = "uint8"
    /\ DOMAIN img.values = DOMAIN inp.hires.values
    /\ \A i \in DOMAIN img.values :
          /\ img.values[i] \in 0..255
          /\ img.values[i] * inp.hires.values[i][2] <= 255 * inp.hires.values[i][1]
          /\ 255 * inp.hires.values[i][1] < (img.values[i] + 1) * inp.hires.values[i][2]

\* C8 as stated: an image of integer type or with a value outside [0, 1] is
\* rejected with an error; a floating-point image within [0, 1] is accepted
\* and rescaled to 8 bits.
C8_AnyFloatAccepted ==
    ImageStepTaken =>
        /\ (inp.hires.dtype \in IntTypes \/ ~InUnitRange(inp.hires)) => Rejected
        /\ (inp.hires.dtype \in FloatTypes /\ InUnitRange(inp.hires)) => Rescaled

\* C8 amended: an image whose type is not 32-bit floating point (an integer
\* type, or another floating-point width) or that has a value outside [0, 1]
\* is rejected with an error and never rescaled; a 32-bit floating-point image
\* within [0, 1] is accepted and rescaled to 8 bits.
C8_OnlyFloat32Accepted ==
    ImageStepTaken =>
        /\ (inp.hires.dtype # "float32" \/ ~InUnitRange(inp.hires)) => Rejected
        /\ (inp.hires.dtype = "float32" /\ InUnitRange(inp.hires)) => Rescaled

C8_Witness ==
    /\ ImageStepTaken /\ Rejected
    /\ inp.hires.dtype \in IntTypes
    /\ InUnitRange(inp.hires)

\* "blank" occurs in the name, in any mix of cases
HasBlankAnyCase(c) ==
    \E i \in 1..Len(c) :
        /\ i + 4 <= Len(c)
        /\ c[i] \in {"b", "B"} /\ c[i + 1] \in {"l", "L"} /\ c[i + 2] \in {"a", "A"}
        /\ c[i + 3] \in {"n", "N"} /\ c[i + 4] \in {"k", "K"}

\* C9: every counts column is in exactly one of the main matrix and the blank
\* side-table, and in the blank side-table exactly when its name contains
\* "blank" in any mix of cases.
C9_GeneBlankPartition ==
    TableDone =>
        /\ table.X \cup table.blank = inp.columns
        /\ table.X \cap table.blank = {}
        /\ \A c \in inp.columns : c \in table.blank <=> HasBlankAnyCase(c)

C9_Witness == TableDone /\ C_Blank3 \in table.blank /\ C_ABCD1 \in table.X

\* the steps of merscope in order; the image step is taken only with read_tif
StepOrder ==
    IF inp.read_tif THEN <<"paths", "transform", "images", "transcripts", "boundaries", "table">>
    ELSE <<"paths", "transform", "transcripts", "boundaries", "table">>

\* the files a step reads (the image files are checked by the step itself)
Required(step) ==
    CASE step = "transform" -> {P_TRANSFORMATION}
      [] step = "transcripts" -> {P_TRANSCRIPTS}
      [] step = "boundaries" -> {file_paths[3]}
      [] step = "table" -> {file_paths[1], file_paths[2]}
      [] OTHER -> {}

\* C10: the steps of merscope are started once each and in order; a dataset
\* exists only after every step has run without error; a step that raised, or
\* whose required file is missing, is the last step of the call, which has
\* ended with an error and no dataset.
C10_AllOrNothing ==
    IsMerscope =>
        /\ Len(steps) <= Len(StepOrder)
        /\ steps = SubSeq(StepOrder, 1, Len(steps))
        /\ sdata # None =>
              /\ pc = "done" /\ error = NoError /\ steps = StepOrder
              /\ sdata = [shapes |-> shapes, points |-> points, images |-> images, table |-> table]
              /\ table # None /\ shapes # <<>>
        /\ pc = "done" => sdata # None
        /\ error # NoError => (pc = "error" /\ sdata = None)
        /\ \A k \in DOMAIN steps :
              (file_paths # None /\ ~(Required(steps[k]) \subseteq inp.present)) =>
                 (k = Len(steps) /\ pc = "error" /\ sdata = None)

C10_Witness ==
    /\ IsMerscope /\ pc = "error" /\ error.step = "table"
    /\ points # <<>> /\ shapes # <<>> /\ sdata = None

====
